---- MODULE Spec2Model ----
(***************************************************************************)
(* Model of main.py (MyHouseHunterBot): the polling loop                   *)
(*   job: crawl_listings -> analyze_data -> send_alert                     *)
(* together with the seen-set file (get_seen / save_seen).                 *)
(*                                                                         *)
(* Texts (the seen-set file, the LLM response, URLs) are sequences of      *)
(* one-character strings, so that str.replace, str.strip, the "in" test,   *)
(* json.dump and json.loads are computed character by character.           *)
(* JSON values are tagged tuples: <<"arr", items>>, <<"obj", pairs>>,      *)
(* <<"str", chars>>, <<"num", n>>, <<"null">>.                             *)
(***************************************************************************)
EXTENDS Integers, Sequences, FiniteSets, TLC

(***************************************************************************)
(* Bounds of the model                                                     *)
(***************************************************************************)
\* number of cycles (the initial job() plus scheduled ticks) explored
MaxCycles == 2

(***************************************************************************)
(* JSON values as Python sees them                                         *)
(***************************************************************************)
JArr(items) == <<"arr", items>>
JObj(pairs) == <<"obj", pairs>>
JStr(chars) == <<"str", chars>>
JNum(n) == <<"num", n>>
JNull == <<"null">>

Kind(v) == v[1]

\* the empty Python list []
EmptyList == JArr(<< >>)

\* bool(v): the truth value Python gives a decoded JSON value
Truthy(v) ==
    CASE Kind(v) = "arr" -> v[2] # << >>
      [] Kind(v) = "obj" -> v[2] # << >>
      [] Kind(v) = "str" -> v[2] # << >>
      [] Kind(v) = "num" -> v[2] # 0
      [] OTHER -> FALSE

\* len(v) is defined for lists, dicts and strings; it raises TypeError otherwise
HasLen(v) == Kind(v) \in {"arr", "obj", "str"}

\* the sequence "for house in v" walks through: the items of a list, the
\* keys of a dict, the characters of a string
Iter(v) ==
    CASE Kind(v) = "arr" -> v[2]
      [] Kind(v) = "obj" -> [i \in 1..Len(v[2]) |-> JStr(v[2][i][1])]
      [] Kind(v) = "str" -> [i \in 1..Len(v[2]) |-> JStr(<<v[2][i]>>)]
      [] OTHER -> << >>

\* house[key] succeeds only on a dict that has the key (KeyError / TypeError otherwise)
HasKey(house, key) ==
    /\ Kind(house) = "obj"
    /\ \E i \in 1..Len(house[2]) : house[2][i][1] = key

GetItem(house, key) ==
    LET i == CHOOSE i \in 1..Len(house[2]) : house[2][i][1] = key
    IN  house[2][i][2]

(***************************************************************************)
(* Character-level string operations                                       *)
(***************************************************************************)
Whitespace == {" ", "\n"}
Digits == {"0", "1", "2", "3", "4", "5", "6", "7", "8", "9"}

StartsWith(t, pat) ==
    /\ Len(t) >= Len(pat)
    /\ \A i \in 1..Len(pat) : t[i] = pat[i]

Drop(t, n) == SubSeq(t, n + 1, Len(t))

\* pat occurs in t at index i
MatchAt(t, pat, i) ==
    /\ i + Len(pat) - 1 <= Len(t)
    /\ \A j \in 1..Len(pat) : t[i + j - 1] = pat[j]

\* pat in t : substring test
Contains(t, pat) == \E i \in 1..Len(t) : MatchAt(t, pat, i)

\* the index of the leftmost occurrence of pat in t (0: none)
FirstAt(t, pat) ==
    IF Contains(t, pat)
    THEN CHOOSE i \in 1..Len(t) :
            MatchAt(t, pat, i) /\ \A k \in 1..(i - 1) : ~MatchAt(t, pat, k)
    ELSE 0

\* t.replace(pat, ""): the occurrences of pat are removed, leftmost first,
\* without overlap
RECURSIVE Remove(_, _)
Remove(text, pat) ==
    LET Rest(t) ==
            LET i == FirstAt(t, pat)
            IN  IF i = 0 THEN t
                ELSE SubSeq(t, 1, i - 1) \o Remove(Drop(t, i + Len(pat) - 1), pat)
    \* the one-element set binds t to the value of text, computed once
    IN  CHOOSE r \in {Rest(t) : t \in {text}} : TRUE

\* t.strip()
RECURSIVE LStrip(_)
LStrip(t) == IF t # << >> /\ t[1] \in Whitespace THEN LStrip(Tail(t)) ELSE t

RECURSIVE RStrip(_)
RStrip(t) ==
    IF t # << >> /\ t[Len(t)] \in Whitespace THEN RStrip(SubSeq(t, 1, Len(t) - 1)) ELSE t

Strip(t) == RStrip(LStrip(t))

\* the backquote character (a TLA+ string cannot hold it, so it has a name)
Backquote == "BQ"

\* the two markers line 118 removes: three backquotes followed by json, and
\* three backquotes
FenceJson == <<Backquote, Backquote, Backquote, "j", "s", "o", "n">>
Fence == <<Backquote, Backquote, Backquote>>

\* line 118: both fence markers are replaced by "", then the text is stripped
Sanitize(content) == Strip(Remove(Remove(content, FenceJson), Fence))

(***************************************************************************)
(* json.dump / json.dumps with the default separators (", " and ": ")      *)
(***************************************************************************)
DigitChar(d) ==
    CASE d = 0 -> "0" [] d = 1 -> "1" [] d = 2 -> "2" [] d = 3 -> "3" [] d = 4 -> "4"
      [] d = 5 -> "5" [] d = 6 -> "6" [] d = 7 -> "7" [] d = 8 -> "8" [] OTHER -> "9"

DigitVal(c) ==
    CASE c = "0" -> 0 [] c = "1" -> 1 [] c = "2" -> 2 [] c = "3" -> 3 [] c = "4" -> 4
      [] c = "5" -> 5 [] c = "6" -> 6 [] c = "7" -> 7 [] c = "8" -> 8 [] OTHER -> 9

RECURSIVE DumpNat(_)
DumpNat(n) == IF n < 10 THEN <<DigitChar(n)>> ELSE DumpNat(n \div 10) \o <<DigitChar(n % 10)>>

RECURSIVE Dump(_)
RECURSIVE DumpItems(_)
RECURSIVE DumpPairs(_)
DumpItems(items) ==
    IF items = << >> THEN << >>
    ELSE IF Len(items) = 1 THEN Dump(items[1])
    ELSE Dump(items[1]) \o <<",", " ">> \o DumpItems(Tail(items))

DumpPairs(pairs) ==
    IF pairs = << >> THEN << >>
    ELSE LET one == <<"\"">> \o pairs[1][1] \o <<"\"", ":", " ">> \o Dump(pairs[1][2])
         IN  IF Len(pairs) = 1 THEN one ELSE one \o <<",", " ">> \o DumpPairs(Tail(pairs))

Dump(v) ==
    CASE Kind(v) = "arr" -> <<"[">> \o DumpItems(v[2]) \o <<"]">>
      [] Kind(v) = "obj" -> <<"{">> \o DumpPairs(v[2]) \o <<"}">>
      [] Kind(v) = "str" -> <<"\"">> \o v[2] \o <<"\"">>
      [] Kind(v) = "num" -> DumpNat(v[2])
      [] OTHER -> <<"n", "u", "l", "l">>

(***************************************************************************)
(* json.loads / json.load: a recursive-descent decoder.  A result is       *)
(* [ok, val, pos]: whether a value was decoded, the value, and the index   *)
(* of the first character after it.  Strings have no escapes and numbers   *)
(* are unsigned integers (the texts of the model use nothing else).        *)
(***************************************************************************)
ParseFail == [ok |-> FALSE, val |-> JNull, pos |-> 0]
ParseOk(v, p) == [ok |-> TRUE, val |-> v, pos |-> p]

RECURSIVE SkipWS(_, _)
SkipWS(t, i) == IF i <= Len(t) /\ t[i] \in Whitespace THEN SkipWS(t, i + 1) ELSE i

\* the index of the closing quote of a string whose first character is at i (0: none)
RECURSIVE CloseQuote(_, _)
CloseQuote(t, i) ==
    IF i > Len(t) THEN 0 ELSE IF t[i] = "\"" THEN i ELSE CloseQuote(t, i + 1)

\* t[i] is the opening quote
ParseString(t, i) ==
    LET c == CloseQuote(t, i + 1)
    IN  IF c = 0 THEN ParseFail ELSE ParseOk(JStr(SubSeq(t, i + 1, c - 1)), c + 1)

RECURSIVE ParseDigits(_, _, _)
ParseDigits(t, i, acc) ==
    IF i <= Len(t) /\ t[i] \in Digits
    THEN ParseDigits(t, i + 1, acc * 10 + DigitVal(t[i]))
    ELSE ParseOk(JNum(acc), i)

RECURSIVE ParseValue(_, _)
RECURSIVE ParseItems(_, _, _)
RECURSIVE ParsePairs(_, _, _)

\* after "[" or after a ",": a value, then "," or "]"
ParseItems(t, i, acc) ==
    LET r == ParseValue(t, i)
        j == SkipWS(t, r.pos)
    IN  IF ~r.ok \/ j > Len(t) THEN ParseFail
        ELSE IF t[j] = "]" THEN ParseOk(JArr(Append(acc, r.val)), j + 1)
        ELSE IF t[j] = "," THEN ParseItems(t, j + 1, Append(acc, r.val))
        ELSE ParseFail

\* after "{" or after a ",": "key" : value, then "," or "}"
ParsePairs(t, i, acc) ==
    LET k == SkipWS(t, i)
        key == IF k <= Len(t) /\ t[k] = "\"" THEN ParseString(t, k) ELSE ParseFail
        c == SkipWS(t, key.pos)
        r == IF key.ok /\ c <= Len(t) /\ t[c] = ":" THEN ParseValue(t, c + 1) ELSE ParseFail
        j == SkipWS(t, r.pos)
        pair == <<key.val[2], r.val>>
    IN  IF ~r.ok \/ j > Len(t) THEN ParseFail
        ELSE IF t[j] = "}" THEN ParseOk(JObj(Append(acc, pair)), j + 1)
        ELSE IF t[j] = "," THEN ParsePairs(t, j + 1, Append(acc, pair))
        ELSE ParseFail

ParseValue(t, i) ==
    LET j == SkipWS(t, i)
    IN  IF j > Len(t) THEN ParseFail
        ELSE IF t[j] = "[" THEN
            LET k == SkipWS(t, j + 1)
            IN  IF k <= Len(t) /\ t[k] = "]" THEN ParseOk(EmptyList, k + 1)
                ELSE ParseItems(t, j + 1, << >>)
        ELSE IF t[j] = "{" THEN
            LET k == SkipWS(t, j + 1)
            IN  IF k <= Len(t) /\ t[k] = "}" THEN ParseOk(JObj(<< >>), k + 1)
                ELSE ParsePairs(t, j + 1, << >>)
        ELSE IF t[j] = "\"" THEN ParseString(t, j)
        ELSE IF t[j] \in Digits THEN ParseDigits(t, j, 0)
        ELSE IF StartsWith(Drop(t, j - 1), <<"n", "u", "l", "l">>) THEN ParseOk(JNull, j + 4)
        ELSE ParseFail

\* json.loads(t): one value and nothing but whitespace after it; ~ok stands
\* for JSONDecodeError
Loads(text) ==
    LET Whole(t, r) == IF r.ok /\ SkipWS(t, r.pos) > Len(t) THEN r ELSE ParseFail
    \* the one-element set binds t to the value of text, computed once
    IN  CHOOSE v \in {Whole(t, ParseValue(t, 1)) : t \in {text}} : TRUE

(***************************************************************************)
(* Program constants                                                       *)
(***************************************************************************)
\* line 80: page text shorter than this is not analysed
MinLen == 500
\* line 97: only the first 25000 characters of the page go into the prompt
PromptLimit == 25000

\* line 130: the scheme marker looked for in a candidate's url
Http == <<"h", "t", "t", "p">>

\* the keys send_alert reads from a candidate (lines 130, 132)
KeyUrl == <<"u", "r", "l">>
KeyTitle == <<"t", "i", "t", "l", "e">>
KeyPrice == <<"p", "r", "i", "c", "e">>
KeyReason == <<"r", "e", "a", "s", "o", "n">>

(***************************************************************************)
(* The seen-set file DB_FILE: whether it exists, and its text              *)
(***************************************************************************)
NoFile == [exists |-> FALSE, text |-> << >>]

\* get_seen(): [] when the file is missing or does not decode
get_seen(file) ==
    IF ~file.exists THEN EmptyList
    ELSE LET r == Loads(file.text)
         IN  IF r.ok THEN r.val ELSE EmptyList

\* save_seen(seen_list): the file is overwritten with the dumped list
save_seen(seen_list) == [exists |-> TRUE, text |-> Dump(seen_list)]

(***************************************************************************)
(* The environment: pages the crawler may return, and LLM stand-ins        *)
(***************************************************************************)
Url1 == <<"h", "t", "t", "p", "1">>
Url2 == <<"h", "t", "t", "p", "2">>
\* a relative link: no scheme marker
UrlNo == <<"n", "o">>

\* A page text is its length and the listings in it, each with the offset
\* at which its text ends.
EmptyText == [len |-> 0, listings |-> << >>]
Listing(u, e) == [url |-> u, end |-> e]

Pages ==
    { [len |-> 400, listings |-> <<Listing(Url1, 300)>>],
      [len |-> 499, listings |-> <<Listing(Url1, 300)>>],
      [len |-> 500, listings |-> <<Listing(Url1, 300)>>],
      [len |-> 12000, listings |-> <<Listing(Url1, 300), Listing(Url2, 900)>>],
      [len |-> 12000, listings |-> <<Listing(UrlNo, 300), Listing(Url1, 900)>>],
      [len |-> 12000, listings |-> <<Listing(Url2, 300), Listing(Url2, 900)>>],
      [len |-> 30000, listings |-> <<Listing(Url1, 300), Listing(Url2, 26000)>>] }

\* markdown_text[:25000]
Truncate(text) ==
    LET Kept(l) == l.end <= PromptLimit
    IN  [len |-> IF text.len < PromptLimit THEN text.len ELSE PromptLimit,
         listings |-> SelectSeq(text.listings, Kept)]

\* the prompt without the seen-set: the ignore list is always empty
PromptNoSeen(markdown_text, seen) ==
    [text |-> Truncate(markdown_text), ignore |-> Dump(EmptyList)]

\* lines 93-109: the prompt carries the truncated page and json.dumps(seen_houses)
Prompt(markdown_text, seen) ==
    [text |-> Truncate(markdown_text), ignore |-> Dump(seen)]

Candidate(u) ==
    JObj(<< <<KeyTitle, JStr(<<"A">>)>>, <<KeyPrice, JStr(<<"3", "0">>)>>,
            <<KeyUrl, JStr(u)>>, <<KeyReason, JStr(<<"o", "k">>)>> >>)

\* a candidate without title, price and reason
Bare(u) == JObj(<< <<KeyUrl, JStr(u)>> >>)

StandIns ==
    {"honest", "fenced", "quoting", "forgetful", "partial", "prose", "object",
     "number", "null", "apierror"}

\* the stand-ins that leave out every URL of the prompt's ignore list
Excluding == {"honest", "fenced", "quoting", "partial", "object"}

\* the stand-ins that wrap a JSON array in a json fence
Fencing == {"fenced", "quoting"}

\* a candidate whose reason quotes the fence marker
Quoting(u) ==
    JObj(<< <<KeyTitle, JStr(<<"A">>)>>, <<KeyPrice, JStr(<<"3", "0">>)>>,
            <<KeyUrl, JStr(u)>>, <<KeyReason, JStr(FenceJson)>> >>)

\* line 105 forbids it, but the model wraps its output like this (spec 4.3)
Wrap(text) == FenceJson \o <<"\n">> \o text \o <<"\n">> \o Fence

\* What a stand-in answers to a prompt: it raises, or it returns a text.
Answer(kind, prompt) ==
    LET ignored == Iter(Loads(prompt.ignore).val)
        IsNew(l) == \A i \in 1..Len(ignored) : ignored[i] # JStr(l.url)
        all == prompt.text.listings
        new == SelectSeq(all, IsNew)
        Cands(ls) == [i \in 1..Len(ls) |-> Candidate(ls[i].url)]
        Partial(ls) ==
            [i \in 1..Len(ls) |-> IF i = 1 THEN Candidate(ls[i].url) ELSE Bare(ls[i].url)]
        Quotes(ls) == [i \in 1..Len(ls) |-> Quoting(ls[i].url)]
        Text(c) == [raised |-> FALSE, content |-> c]
    IN  CASE kind = "honest" -> Text(Dump(JArr(Cands(new))))
          [] kind = "fenced" -> Text(Wrap(Dump(JArr(Cands(new)))))
          [] kind = "quoting" -> Text(Wrap(Dump(JArr(Quotes(new)))))
          [] kind = "forgetful" -> Text(Dump(JArr(Cands(all))))
          [] kind = "partial" -> Text(Dump(JArr(Partial(new))))
          [] kind = "prose" -> Text(<<"N", "o", " ", "n", "e", "w", ".">>)
          [] kind = "object" ->
                Text(Dump(IF new = << >> THEN JObj(<< >>) ELSE Candidate(new[1].url)))
          [] kind = "number" -> Text(<<"7">>)
          [] kind = "null" -> Text(<<"n", "u", "l", "l">>)
          [] OTHER -> [raised |-> TRUE, content |-> << >>]

\* what requests.post may do: return a 2xx response, return a response with
\* another status, or raise
PostOutcomes == {"ok", "status", "error"}

\* records the file may hold when the process starts
\* a file whose last write was cut short: it does not decode
Corrupt == [exists |-> TRUE, text |-> <<"[", "\"", "h", "t", "t", "p", "1", "\"", ",", " ", "\"", "h">>]

InitialRecords ==
    { NoFile, save_seen(EmptyList), save_seen(JArr(<<JStr(Url1)>>)), Corrupt }

(***************************************************************************)
(* State                                                                   *)
(***************************************************************************)
VARIABLES
    db,           \* the seen-set file
    token,        \* whether GITHUB_TOKEN is set (line 13)
    pc,           \* where the process is: "crawl", "analyze", "alert", "loop",
                  \* "idle" (waiting in the schedule loop) or "dead"
    cycles,       \* number of job() calls started
    raw_md,       \* job: the crawl result
    matches,      \* job: what analyze_data returned
    seen_houses,  \* send_alert: the in-memory copy of the seen-set
    plog,         \* send_alert: what happened to each candidate handled so far
    pass,         \* the send_alert call of this cycle: "none", "running",
                  \* "returned" or "raised"
    saves,        \* save_seen calls of this cycle
    llmCalls,     \* chat-completion calls of this cycle
    dbStart,      \* the seen-set file when this cycle started
    run,          \* the last analyze_data run that reached the LLM, kept into
                  \* the next cycle only when that cycle is a re-run of it
    prev,         \* the run before it, in a re-run
    fetch,        \* crawl_listings of this cycle: "none", "page", "empty", "error"
    due,          \* the 30-minute interval has passed since the last job()
                  \* call started (during a cycle) or returned (while idle)
    active,       \* job() calls in progress
    delivered,    \* URLs of the notifications delivered since the process started
    redelivered,  \* those delivered more than once
    obeyed,       \* no LLM answer so far held a URL of the seen-set it was given
    other,        \* a second pipeline process on the same file, in send_alert
    events        \* the get_seen and save_seen calls of the send_alert passes,
                  \* in order

vars ==
    <<db, token, pc, cycles, raw_md, matches, seen_houses, plog, pass, saves,
      llmCalls, dbStart, run, prev, fetch, due, active, delivered, redelivered,
      obeyed, other, events>>

\* matches before analyze_data has returned in this cycle
Unset == <<"unset">>
NoRun == [page |-> EmptyText, seen |-> EmptyList, kind |-> "none", result |-> EmptyList]

\* the second process before it has entered send_alert
NoOther == [pc |-> "off", seen_houses |-> EmptyList, todo |-> << >>]

Start ==
    /\ db \in InitialRecords
    /\ token \in BOOLEAN
    /\ pc = "crawl"
    /\ cycles = 1
    /\ raw_md = EmptyText
    /\ matches = Unset
    /\ seen_houses = EmptyList
    /\ plog = << >>
    /\ pass = "none"
    /\ saves = 0
    /\ llmCalls = 0
    /\ dbStart = db
    /\ run = NoRun
    /\ prev = NoRun
    /\ fetch = "none"
    /\ due = FALSE
    /\ active = 1
    /\ delivered = {}
    /\ redelivered = {}
    /\ obeyed = TRUE
    /\ events = << >>

Init == Start /\ other = NoOther

\* job() returns when the process goes back to the schedule loop: the call
\* is over, and the next run is 30 minutes away (line 167 after the first
\* call, the rescheduling of schedule.run_pending after the others)
Returned(next) ==
    IF next = "idle"
    THEN active' = active - 1 /\ due' = FALSE
    ELSE UNCHANGED <<active, due>>

(***************************************************************************)
(* crawl_listings and the test of its result in job (lines 148-151, 161)   *)
(***************************************************************************)
\* crawl_listings returns the page, or "" for an empty page or any exception
CrawlResults == Pages \cup {EmptyText}

\* line 151
Scraped(text) == text.len > 0

\* what the crawler does: it renders a page, it renders nothing, or it
\* raises (rendering error, timeout, navigation failure)
CrawlOutcomes == {"page", "empty", "error"}

\* crawl_listings without the except clause: the error reaches job
CrawlReturnPropagates(outcome, text) ==
    CASE outcome = "page" -> [raised |-> FALSE, text |-> text]
      [] outcome = "empty" -> [raised |-> FALSE, text |-> EmptyText]
      [] OTHER -> [raised |-> TRUE, text |-> EmptyText]

\* lines 61-75: the markdown is returned, "" for an empty one (line 68)
\* and for an exception (line 75)
CrawlReturn(outcome, text) ==
    CASE outcome = "page" -> [raised |-> FALSE, text |-> text]
      [] outcome = "empty" -> [raised |-> FALSE, text |-> EmptyText]
      [] OTHER -> [raised |-> FALSE, text |-> EmptyText]

\* In a re-run (spec 8: the Extractor run twice on the same inputs) the
\* crawler serves the page of the remembered run and the stand-in is the
\* one that answered it; any other cycle starts with no remembered run.
Rerun == run # NoRun

crawl_listings ==
    /\ pc = "crawl"
    /\ \E outcome \in CrawlOutcomes : \E text \in CrawlResults :
        /\ outcome = "page" <=> text # EmptyText
        /\ Rerun => text = run.page
        /\ fetch' = outcome
        /\ LET r == CrawlReturn(outcome, text)
           IN  IF r.raised
               THEN pc' = "dead" /\ UNCHANGED raw_md
               ELSE /\ raw_md' = r.text
                    /\ pc' = IF Scraped(r.text) THEN "analyze" ELSE "idle"
    /\ Returned(pc')
    /\ UNCHANGED <<db, token, cycles, matches, seen_houses, plog, pass, saves,
                   llmCalls, dbStart, run, prev>>
    /\ UNCHANGED <<delivered, redelivered, obeyed, other, events>>

(***************************************************************************)
(* analyze_data and the test of its result in job (lines 78-122, 156-160)  *)
(***************************************************************************)
\* the gate without the length test: only the empty text is turned away
TooShortEmptyOnly(markdown_text) == markdown_text.len = 0

\* line 80
TooShort(markdown_text) == markdown_text.len = 0 \/ markdown_text.len < MinLen

\* lines 111-122: the completion's text is sanitized and decoded; whatever
\* json.loads returns is returned, and any exception gives []
Decode(answer) ==
    IF answer.raised THEN EmptyList
    ELSE LET r == Loads(Sanitize(answer.content))
         IN  IF r.ok THEN r.val ELSE EmptyList

\* job without the test of line 157: send_alert is called for any result
ShouldAlertAlways(found) == TRUE

\* line 157
ShouldAlert(found) == Truthy(found)

InList(list, u) == \E j \in 1..Len(list) : list[j] = u

\* the candidates of an analyze_data result that carry a url
WithUrl(result) == {i \in 1..Len(Iter(result)) : HasKey(Iter(result)[i], KeyUrl)}

\* no candidate of the result has a URL of the list seen
Unseen(result, seen) ==
    \A i \in WithUrl(result) : ~InList(Iter(seen), GetItem(Iter(result)[i], KeyUrl))

analyze_data ==
    /\ pc = "analyze"
    /\ IF TooShort(raw_md) THEN
            /\ matches' = EmptyList
            /\ pc' = "idle"
            /\ UNCHANGED <<llmCalls, run, prev, obeyed>>
       ELSE IF ~token THEN
            \* line 86: OpenAI(api_key=None) raises, outside any try
            /\ pc' = "dead"
            /\ UNCHANGED <<matches, llmCalls, run, prev, obeyed>>
       ELSE \E kind \in (IF Rerun THEN {run.kind} ELSE StandIns) :
            LET seen == get_seen(db)
                result == Decode(Answer(kind, Prompt(raw_md, seen)))
            IN  /\ llmCalls' = llmCalls + 1
                /\ matches' = result
                /\ prev' = run
                /\ run' = [page |-> raw_md, seen |-> seen, kind |-> kind,
                           result |-> result]
                /\ pc' = IF ShouldAlert(result) THEN "alert" ELSE "idle"
                /\ obeyed' = (obeyed /\ Unseen(result, seen))
    /\ Returned(pc')
    /\ UNCHANGED <<db, token, cycles, raw_md, seen_houses, plog, pass, saves, dbStart>>
    /\ UNCHANGED <<fetch, delivered, redelivered, other, events>>

(***************************************************************************)
(* send_alert (lines 125-141)                                              *)
(***************************************************************************)
\* "http" in url is defined for a string (substring), a list (an item equal
\* to "http") and a dict (a key equal to "http"); it raises TypeError otherwise
InDefined(url) == Kind(url) \in {"str", "arr", "obj"}

\* the loop without the test of line 130: every url passes
HasSchemeAny(url) == TRUE

HasScheme(url) ==
    CASE Kind(url) = "str" -> Contains(url[2], Http)
      [] Kind(url) = "arr" -> \E i \in 1..Len(url[2]) : url[2][i] = JStr(Http)
      [] Kind(url) = "obj" -> \E i \in 1..Len(url[2]) : url[2][i][1] = Http
      [] OTHER -> FALSE

\* line 137: the copy is extended after a post that returned
Marks(outcome) == outcome \in {"ok", "status"}

\* send_alert starting from an empty list instead of the file
LoadCopyFresh(file) == EmptyList

\* line 126: the in-memory copy send_alert works on
LoadCopy(file) == get_seen(file)

Event(w, o, l) == [who |-> w, op |-> o, list |-> l]

\* lines 126-127: the copy is read, and len(matches) is printed
send_alert_begin ==
    /\ pc = "alert"
    /\ seen_houses' = LoadCopy(db)
    /\ events' = Append(events, Event("main", "read", LoadCopy(db)))
    /\ IF HasLen(matches)
       THEN pc' = "loop" /\ pass' = "running"
       ELSE pc' = "dead" /\ pass' = "raised"
    /\ UNCHANGED <<db, token, cycles, raw_md, matches, plog, saves, llmCalls,
                   dbStart, run, prev>>
    /\ UNCHANGED <<fetch, due, active, delivered, redelivered, obeyed, other>>

Entry(o, p, m) == [out |-> o, post |-> p, marked |-> m]

\* lines 129-139: one iteration of the loop
send_alert_step ==
    /\ pc = "loop"
    /\ Len(plog) < Len(Iter(matches))
    /\ LET house == Iter(matches)[Len(plog) + 1]
           Raise == /\ plog' = Append(plog, Entry("raised", "none", FALSE))
                    /\ pc' = "dead"
                    /\ pass' = "raised"
                    /\ UNCHANGED <<seen_houses, delivered, redelivered>>
       IN  IF ~HasKey(house, KeyUrl) THEN Raise
           ELSE IF ~InDefined(GetItem(house, KeyUrl)) THEN Raise
           ELSE IF ~HasScheme(GetItem(house, KeyUrl)) THEN
                \* line 130: continue
                /\ plog' = Append(plog, Entry("skipped", "none", FALSE))
                /\ UNCHANGED <<pc, pass, seen_houses, delivered, redelivered>>
           ELSE IF \E k \in {KeyTitle, KeyPrice, KeyReason} : ~HasKey(house, k) THEN
                \* line 132: KeyError, outside the try
                Raise
           ELSE \E outcome \in PostOutcomes :
                LET after == IF Marks(outcome)
                             THEN JArr(Append(seen_houses[2], GetItem(house, KeyUrl)))
                             ELSE seen_houses
                IN  /\ seen_houses' = after
                    /\ plog' = Append(plog,
                                      Entry("posted", outcome,
                                            Len(after[2]) > Len(seen_houses[2])))
                    /\ IF outcome = "ok"
                       THEN /\ delivered' = delivered \cup {GetItem(house, KeyUrl)}
                            /\ redelivered' =
                                 IF GetItem(house, KeyUrl) \in delivered
                                 THEN redelivered \cup {GetItem(house, KeyUrl)}
                                 ELSE redelivered
                       ELSE UNCHANGED <<delivered, redelivered>>
                    /\ UNCHANGED <<pc, pass>>
    /\ UNCHANGED <<db, token, cycles, raw_md, matches, saves, llmCalls, dbStart,
                   run, prev>>
    /\ UNCHANGED <<fetch, due, active, obeyed, other, events>>

\* line 141, after the loop
send_alert_save ==
    /\ pc = "loop"
    /\ Len(plog) = Len(Iter(matches))
    /\ db' = save_seen(seen_houses)
    /\ saves' = saves + 1
    /\ pass' = "returned"
    /\ pc' = "idle"
    /\ events' = Append(events, Event("main", "save", seen_houses))
    /\ Returned(pc')
    /\ UNCHANGED <<token, cycles, raw_md, matches, seen_houses, plog, llmCalls,
                   dbStart, run, prev>>
    /\ UNCHANGED <<fetch, delivered, redelivered, obeyed, other>>

(***************************************************************************)
(* The schedule loop (lines 166-171): the next job() call                  *)
(***************************************************************************)
\* the process is between two job() calls
InCycle == {"crawl", "analyze", "alert", "loop"}

\* a scheduler that starts the due job whether or not one is running
CanStartThreaded(p, d) == p # "dead" /\ d

\* lines 169-171: run_pending is called by the loop, so only when no job()
\* call is running, and it starts the job only when its time has come
CanStart(p, d) == p = "idle" /\ d

tick ==
    /\ CanStart(pc, due)
    /\ cycles < MaxCycles
    /\ pc' = "crawl"
    /\ active' = active + 1
    /\ due' = FALSE
    /\ fetch' = "none"
    /\ events' = << >>
    /\ UNCHANGED <<delivered, redelivered, obeyed, other>>
    /\ cycles' = cycles + 1
    /\ raw_md' = EmptyText
    /\ matches' = Unset
    /\ seen_houses' = EmptyList
    /\ plog' = << >>
    /\ pass' = "none"
    /\ saves' = 0
    /\ llmCalls' = 0
    /\ dbStart' = db
    /\ prev' = NoRun
    /\ \E again \in BOOLEAN :
        run' = IF again /\ get_seen(db) = run.seen THEN run ELSE NoRun
    /\ UNCHANGED <<db, token>>

\* line 171: the loop sleeps until 30 minutes have passed since job() returned
interval_passes ==
    /\ pc = "idle"
    /\ ~due
    /\ due' = TRUE
    /\ UNCHANGED <<db, token, pc, cycles, raw_md, matches, seen_houses, plog, pass,
                   saves, llmCalls, dbStart, run, prev, fetch, active, delivered,
                   redelivered, obeyed, other, events>>

\* a cycle that takes longer than the interval: 30 minutes pass while
\* job() is running
overrun ==
    /\ pc \in InCycle
    /\ ~due
    /\ due' = TRUE
    /\ UNCHANGED <<db, token, pc, cycles, raw_md, matches, seen_houses, plog, pass,
                   saves, llmCalls, dbStart, run, prev, fetch, active, delivered,
                   redelivered, obeyed, other, events>>

(***************************************************************************)
(* A second pipeline process on the same seen-set file, in its send_alert  *)
(* (lines 125-141) with a list of well-formed candidates                   *)
(***************************************************************************)
\* the URLs of the candidates the second process may hold
OtherLists == { <<JStr(Url2)>>, <<JStr(Url1)>> }

OtherStarts ==
    { [pc |-> "alert", seen_houses |-> EmptyList, todo |-> t] : t \in OtherLists }

OtherFrame ==
    UNCHANGED <<token, pc, cycles, raw_md, matches, seen_houses, plog, pass, saves,
                llmCalls, dbStart, run, prev, fetch, due, active, delivered,
                redelivered, obeyed>>

\* line 126
other_begin ==
    /\ other.pc = "alert"
    /\ other' = [other EXCEPT !.pc = "loop", !.seen_houses = LoadCopy(db)]
    /\ events' = Append(events, Event("other", "read", LoadCopy(db)))
    /\ UNCHANGED db
    /\ OtherFrame

\* lines 129-139
other_step ==
    /\ other.pc = "loop"
    /\ other.todo # << >>
    /\ \E outcome \in PostOutcomes :
        other' = [other EXCEPT
                    !.todo = Tail(other.todo),
                    !.seen_houses =
                        IF Marks(outcome)
                        THEN JArr(Append(other.seen_houses[2], Head(other.todo)))
                        ELSE other.seen_houses]
    /\ UNCHANGED <<db, events>>
    /\ OtherFrame

\* line 141
other_save ==
    /\ other.pc = "loop"
    /\ other.todo = << >>
    /\ db' = save_seen(other.seen_houses)
    /\ other' = [other EXCEPT !.pc = "done"]
    /\ events' = Append(events, Event("other", "save", other.seen_houses))
    /\ OtherFrame

(***************************************************************************)
(* Specifications                                                          *)
(***************************************************************************)
\* one job() call of the process
Cycle ==
    \/ crawl_listings
    \/ analyze_data
    \/ send_alert_begin
    \/ send_alert_step
    \/ send_alert_save

Next ==
    \/ Cycle
    \/ tick
    \/ interval_passes

\* the process alone, every cycle shorter than the interval
Spec == Init /\ [][Next]_vars

NextTimed ==
    \/ Next
    \/ overrun

\* the process alone, with cycles that may outlast the interval
SpecTimed == Init /\ [][NextTimed]_vars

InitTwo == Start /\ other \in OtherStarts \cup {NoOther}

NextTwo ==
    \/ Cycle
    \/ other_begin
    \/ other_step
    \/ other_save

\* the first cycle of the process, with or without a second process whose
\* send_alert pass runs at any time
SpecTwo == InitTwo /\ [][NextTwo]_vars

(***************************************************************************)
(* Properties                                                              *)
(***************************************************************************)
\* the URLs in the persisted seen-set, as get_seen() returns them
Record(file) == Iter(get_seen(file))

\* the candidates send_alert has handled so far in this pass
Handled == 1..Len(plog)
House(i) == Iter(matches)[i]
UrlOf(i) == GetItem(House(i), KeyUrl)

\* the send_alert call of this cycle is over: it returned or it raised
PassOver == pass \in {"returned", "raised"}

\* C1: once a send_alert pass is over, the URL of every candidate whose
\* notification was delivered in that pass is in the persisted seen-set,
\* whatever happened to the other candidates of the list.
C1_DeliveredArePersisted ==
    PassOver =>
        \A i \in Handled : plog[i].post = "ok" => InList(Record(db), UrlOf(i))

\* C2: the URL of a candidate whose delivery failed (the post raised, or
\* the response had a non-success status) is not added to the seen-set.
C2_FailedDeliveryNotMarked ==
    \A i \in Handled : plog[i].post \in {"error", "status"} => ~plog[i].marked

\* C3: an exception raised inside a cycle is caught at the cycle boundary,
\* so the process never stops running.
C3_ProcessKeepsRunning == pc # "dead"

\* C4: analyze_data returns a list, and the empty list whenever the LLM
\* call raised or the fence-stripped response is not a JSON array.
C4_NonArrayGivesEmptyList ==
    (llmCalls > 0 /\ matches # Unset) =>
        LET a == Answer(run.kind, Prompt(run.page, run.seen))
            r == Loads(Sanitize(a.content))
        IN  /\ Kind(matches) = "arr"
            /\ (a.raised \/ ~r.ok \/ Kind(r.val) # "arr") => matches = EmptyList

\* two runs with the same page, seen-set and stand-in gave the same list
SameInputsSameResult ==
    (prev.kind # "none" /\ prev.page = run.page /\ prev.seen = run.seen
        /\ prev.kind = run.kind) => prev.result = run.result

NoScheme(i) ==
    /\ HasKey(House(i), KeyUrl)
    /\ Kind(UrlOf(i)) = "str"
    /\ ~Contains(UrlOf(i)[2], Http)

\* C6: a candidate whose url has no scheme marker is skipped: nothing is
\* posted for it, its URL is not added to the seen-set, and the pass goes
\* on with the candidates after it.
C6_NoSchemeSkipped ==
    \A i \in Handled : NoScheme(i) =>
        /\ plog[i].out = "skipped"
        /\ plog[i].post = "none"
        /\ ~plog[i].marked
        /\ ~InList(seen_houses[2], UrlOf(i)) \/ InList(Record(dbStart), UrlOf(i))
        /\ i = Len(plog) => pass \in {"running", "returned"}
        /\ pass = "returned" => Len(plog) = Len(Iter(matches))

\* a skipped candidate followed by one that was posted
C6_Witness ==
    \E i \in Handled :
        /\ NoScheme(i)
        /\ i + 1 \in Handled
        /\ plog[i + 1].out = "posted"

\* C7: for a page text shorter than 500 characters analyze_data returns []
\* and makes no LLM call; an LLM call is made only for a text of at least 500.
C7_ShortContentGate ==
    /\ llmCalls > 0 => raw_md.len >= 500
    /\ (matches # Unset /\ raw_md.len < 500) => (matches = EmptyList /\ llmCalls = 0)

\* analyze_data has returned for a text of 499 characters
C7_Witness ==
    /\ raw_md.len = 499
    /\ matches = EmptyList
    /\ llmCalls = 0
    /\ pc = "idle"

\* C8: every send_alert pass over a list of candidates saves the seen-set
\* exactly once, after the last candidate.
C8_SavedExactlyOnce ==
    Kind(matches) = "arr" =>
        /\ PassOver => saves = 1
        /\ pass = "running" => saves = 0

\* C9: a cycle in which the Extractor yields no candidates sends nothing
\* and leaves the seen-set file as it was when the cycle started.
C9_EmptyCycleChangesNothing ==
    (pc = "idle" /\ ~Truthy(matches)) =>
        /\ db = dbStart
        /\ plog = << >>
        /\ saves = 0

\* the stand-in answered [] for a page whose only listing is already seen
C9_Witness ==
    /\ pc = "idle"
    /\ llmCalls > 0
    /\ run.kind = "honest"
    /\ matches = EmptyList
    /\ Record(db) # << >>
    /\ db = dbStart

\* C10: no URL occurs twice in the persisted seen-set.
C10_RecordDistinct ==
    \A i, j \in 1..Len(Record(db)) : i # j => Record(db)[i] # Record(db)[j]

\* C11: crawl_listings never lets an exception reach job: a crawl that
\* raised, like one that rendered nothing, hands job the empty text, and in
\* such a cycle job returns with neither analyze_data nor send_alert called
\* (no result, no LLM call, no pass, the seen-set file untouched).
C11_CrawlFailureEndsCycle ==
    fetch \in {"empty", "error"} =>
        /\ pc = "idle"
        /\ raw_md = EmptyText
        /\ matches = Unset
        /\ llmCalls = 0
        /\ pass = "none"
        /\ plog = << >>
        /\ saves = 0
        /\ db = dbStart

\* the crawler raised in a cycle started by the schedule loop, and the
\* process is back in the loop
C11_Witness ==
    /\ fetch = "error"
    /\ cycles = 2
    /\ pc = "idle"
    /\ raw_md = EmptyText

\* C12: at most one job() call is in progress at any time, none while the
\* process waits in the schedule loop, also when 30 minutes have passed
\* during a cycle.
C12_CyclesNeverOverlap ==
    /\ active <= 1
    /\ pc = "idle" => active = 0
    /\ pc \in InCycle => active = 1

\* the interval ran out while a cycle started by the loop was still in its
\* send_alert pass
C12_Witness ==
    /\ due
    /\ pc = "loop"
    /\ cycles = 2
    /\ active = 1

\* the text between the opening and the closing fence of a wrapped answer
Inner(content) ==
    SubSeq(content, Len(FenceJson) + 2, Len(content) - Len(Fence) - 1)

\* C13: when the answer is a JSON array wrapped in a json fence, sanitizing
\* and parsing the answer gives the value that parsing the text of the array
\* gives, also when a string field of the array holds the fence marker.
C13_FenceRoundTrip ==
    (llmCalls > 0 /\ run.kind \in Fencing) =>
        LET a == Answer(run.kind, Prompt(run.page, run.seen))
        IN  /\ a.content = Wrap(Inner(a.content))
            /\ Loads(Inner(a.content)).ok
            /\ Loads(Sanitize(a.content)) = Loads(Inner(a.content))

\* the get_seen and save_seen calls of a writer, as positions in events
Reads(w) == {i \in 1..Len(events) : events[i].who = w /\ events[i].op = "read"}
Saves(w) == {i \in 1..Len(events) : events[i].op = "save" /\ events[i].who = w}
AllSaves == Saves("main") \cup Saves("other")

\* both writers have saved
BothSaved == Saves("main") # {} /\ Saves("other") # {}

\* the two passes interleave: each writer's get_seen precedes every save_seen
Interleaved ==
    /\ Reads("main") # {} /\ Reads("other") # {}
    /\ \A i \in Reads("main") \cup Reads("other") : \A k \in AllSaves : i < k

FirstSave == CHOOSE k \in AllSaves : \A j \in AllSaves : k <= j
LastSave == CHOOSE k \in AllSaves : \A j \in AllSaves : j <= k

IsPrefix(a, b) == Len(a) <= Len(b) /\ SubSeq(b, 1, Len(a)) = a

\* what a writer read, and what it appended to its copy before saving
ReadOf(w) == events[CHOOSE i \in Reads(w) : TRUE].list[2]
AddedBy(k) ==
    SubSeq(events[k].list[2], Len(ReadOf(events[k].who)) + 1, Len(events[k].list[2]))

\* a URL that a save_seen call wrote is not in the record
Lost ==
    \E k \in AllSaves : \E j \in 1..Len(events[k].list[2]) :
        ~InList(Record(db), events[k].list[2][j])

\* C14: when the send_alert passes of two processes interleave, the record
\* ends as the later saver's copy, which is what it read before the first
\* save plus its own URLs, so a URL only the first saver added is not in the
\* record; and a saved URL is missing from the record only after such an
\* interleaving of two writers, never with the process alone.
C14_LostUpdate ==
    /\ (BothSaved /\ Interleaved) =>
            /\ Record(db) = events[LastSave].list[2]
            /\ IsPrefix(ReadOf(events[LastSave].who), Record(db))
            /\ ReadOf("main") = ReadOf("other")
            /\ \A j \in 1..Len(AddedBy(FirstSave)) :
                    (/\ ~InList(AddedBy(LastSave), AddedBy(FirstSave)[j])
                     /\ ~InList(ReadOf("main"), AddedBy(FirstSave)[j]))
                    => ~InList(Record(db), AddedBy(FirstSave)[j])
    /\ Lost => (BothSaved /\ Interleaved /\ other.pc # "off")

\* both passes read the record, the second process saved a delivered URL,
\* then the process saved its copy without it
C14_Witness ==
    /\ Lost
    /\ Interleaved
    /\ pass = "returned"
    /\ other.pc = "done"
    /\ events[LastSave].who = "main"
    /\ AddedBy(FirstSave) # << >>

\* the URLs a record may hold
Urls == {JStr(Url1), JStr(Url2), JStr(UrlNo)}

\* the text of the file holds the URL
Holds(file, u) == file.exists /\ Contains(file.text, Dump(u))

\* C15: the record a cycle started with is a prefix of the record at every
\* later point of the cycle, and every URL the file held when the cycle
\* started is still in the file, also when the file does not decode.
C15_RecordOnlyGrows ==
    /\ IsPrefix(Record(dbStart), Record(db))
    /\ \A u \in Urls : Holds(dbStart, u) => Holds(db, u)

\* C16: as long as no LLM answer held a URL of the seen-set it was given,
\* no URL has been delivered more than once.
C16_AtMostOnce == obeyed => redelivered = {}

====
